---- MODULE Spec2Model ----
(***************************************************************************)
(* A model of makalu-go (src/main.go): the structural comparator           *)
(* compareObjects with its comparator table and operators, and the         *)
(* placeholder resolver refer.                                             *)
(*                                                                         *)
(* Go strings are TLA+ strings.  A dynamic value (interface{}) is a record *)
(* whose field kind is the name reflect.TypeOf(v).String() gives it, the   *)
(* name the code dispatches on.  A function of the code that appends to    *)
(* the global errors list returns here an outcome record                   *)
(*   [ok, errs, out, panic]                                                *)
(* its boolean result, the diagnostics it appended, the lines it printed   *)
(* about unsupported comparisons, and whether it panicked.  Go visits the  *)
(* keys of a map in an unspecified order, so a function that ranges over a *)
(* map yields the SET of the outcomes of all visiting orders.              *)
(***************************************************************************)
EXTENDS Integers, Sequences, FiniteSets, TLC

VARIABLES errors, actual, expected, mark, calls, status, stdout,
          value, context, index, buffer, rpc,
          entries, position, requests

vars == <<errors, actual, expected, mark, calls, status, stdout,
          value, context, index, buffer, rpc,
          entries, position, requests>>

compareVars == <<errors, actual, expected, mark, calls, status, stdout>>
referVars == <<value, context, index, buffer, rpc>>
mainVars == <<entries, position, requests>>

(***************************************************************************)
(* Bounds of the model.                                                    *)
(***************************************************************************)
\* the number of compareObjects calls of one run
MaxCalls == 1
\* the number of pieces of a generated request target
MaxPieces == 3
\* the length of the buffer of refer beyond which the model leaves a loop that
\* does not advance
MaxBuffer == 12
\* the number of specification entries of one run
MaxEntries == 2

(***************************************************************************)
(* strings                                                                 *)
(***************************************************************************)
HasPrefix(s, p) == Len(s) >= Len(p) /\ SubSeq(s, 1, Len(p)) = p

HasSuffix(s, p) == Len(s) >= Len(p) /\ SubSeq(s, Len(s) - Len(p) + 1, Len(s)) = p

TrimPrefix(s, p) == IF HasPrefix(s, p) THEN SubSeq(s, Len(p) + 1, Len(s)) ELSE s

TrimSuffix(s, p) == IF HasSuffix(s, p) THEN SubSeq(s, 1, Len(s) - Len(p)) ELSE s

\* strings.Index(s, sub): the 0-based index of the first occurrence, or -1
StringsIndex(s, sub) ==
    LET hits == {i \in 0..(Len(s) - Len(sub)) : SubSeq(s, i + 1, i + Len(sub)) = sub}
    IN  IF hits = {} THEN -1 ELSE CHOOSE i \in hits : \A j \in hits : i <= j

IsSpace(c) == c \in {" ", "\t", "\n", "\r"}

RECURSIVE TrimLeft(_)
TrimLeft(s) == IF Len(s) > 0 /\ IsSpace(SubSeq(s, 1, 1)) THEN TrimLeft(SubSeq(s, 2, Len(s))) ELSE s

RECURSIVE TrimRight(_)
TrimRight(s) ==
    IF Len(s) > 0 /\ IsSpace(SubSeq(s, Len(s), Len(s)))
    THEN TrimRight(SubSeq(s, 1, Len(s) - 1)) ELSE s

TrimSpace(s) == TrimRight(TrimLeft(s))

(***************************************************************************)
(* dynamic values                                                          *)
(***************************************************************************)
MapType == "map[string]interface {}"

String(s) == [kind |-> "string", s |-> s]
\* a json.Number keeps the token of the response text
Number(tok) == [kind |-> "json.Number", tok |-> tok]
GoInt(i) == [kind |-> "int", i |-> i]
Float(tok) == [kind |-> "float64", f |-> tok]
Bool(b) == [kind |-> "bool", b |-> b]
Mapping(m) == [kind |-> MapType, m |-> m]
Sequence(l) == [kind |-> "[]interface {}", l |-> l]
Nil == [kind |-> "nil"]

EmptyMap == [k \in {} |-> Nil]

\* reflect.TypeOf(v).String(); reflect.TypeOf(nil) is a nil Type, and the
\* call of String() on it panics
TypeOfPanics(v) == v.kind = "nil"
TypeOf(v) == v.kind

DigitValue(c) ==
    CASE c = "0" -> 0 [] c = "1" -> 1 [] c = "2" -> 2 [] c = "3" -> 3 [] c = "4" -> 4
      [] c = "5" -> 5 [] c = "6" -> 6 [] c = "7" -> 7 [] c = "8" -> 8 [] c = "9" -> 9
      [] OTHER -> -1

RECURSIVE ParseDigits(_, _)
\* the value of the decimal digits s after the prefix of value acc, -1 on a non-digit
ParseDigits(s, acc) ==
    IF Len(s) = 0 THEN acc
    ELSE IF DigitValue(SubSeq(s, 1, 1)) < 0 THEN -1
    ELSE ParseDigits(SubSeq(s, 2, Len(s)), 10 * acc + DigitValue(SubSeq(s, 1, 1)))

\* json.Number.Int64(): strconv.ParseInt(token, 10, 64)
Int64(tok) ==
    LET neg == HasPrefix(tok, "-")
        digits == IF neg \/ HasPrefix(tok, "+") THEN SubSeq(tok, 2, Len(tok)) ELSE tok
        n == IF Len(digits) = 0 THEN -1 ELSE ParseDigits(digits, 0)
    IN  IF n < 0 THEN [err |-> TRUE, v |-> 0]
        ELSE [err |-> FALSE, v |-> IF neg THEN 0 - n ELSE n]

(***************************************************************************)
(* diagnostics and outcomes                                                *)
(***************************************************************************)
NoEntry == ""

Error(message, actualKey, expectedKey, category) ==
    [message |-> message, actualKey |-> actualKey, expectedKey |-> expectedKey,
     category |-> category, entry |-> NoEntry]

Return(ok) == [ok |-> ok, errs |-> <<>>, out |-> <<>>, panic |-> FALSE]
Append1(err) == [ok |-> FALSE, errs |-> <<err>>, out |-> <<>>, panic |-> FALSE]
Panic == [ok |-> FALSE, errs |-> <<>>, out |-> <<>>, panic |-> TRUE]
Printf(a, e) ==
    [ok |-> FALSE, errs |-> <<>>, panic |-> FALSE,
     out |-> <<"Makalu does not currently support " \o a \o " vs " \o e \o " comparisons!">>]

\* the outcome of r run after acc; the caller's result is result && r.ok
Then(acc, r) ==
    [ok |-> acc.ok /\ r.ok, errs |-> acc.errs \o r.errs,
     out |-> acc.out \o r.out, panic |-> r.panic]

\* the outcome of r run after acc when its boolean result is discarded
ThenIgnore(acc, r) ==
    [ok |-> acc.ok, errs |-> acc.errs \o r.errs,
     out |-> acc.out \o r.out, panic |-> r.panic]

(***************************************************************************)
(* regexp.MatchString(pattern, s), for the patterns of the fragment        *)
(*   ["^"] literal characters ["$"]                                        *)
(* and for a pattern with an unclosed parenthesis, which does not compile. *)
(***************************************************************************)
Occurrences(s, c) == Cardinality({i \in 1..Len(s) : SubSeq(s, i, i) = c})

MatchString(pattern, s) ==
    LET atStart == HasPrefix(pattern, "^")
        p1 == TrimPrefix(pattern, "^")
        atEnd == HasSuffix(p1, "$")
        lit == TrimSuffix(p1, "$")
        hits == {i \in 0..(Len(s) - Len(lit)) : SubSeq(s, i + 1, i + Len(lit)) = lit}
    IN  IF Occurrences(pattern, "(") # Occurrences(pattern, ")")
        THEN [err |-> TRUE, matched |-> FALSE]
        ELSE [err |-> FALSE,
              matched |-> \E i \in hits : /\ atStart => i = 0
                                          /\ atEnd => i + Len(lit) = Len(s)]

(***************************************************************************)
(* the operators                                                           *)
(***************************************************************************)
executeIsOperator(operand1, operand2, actualKey, expectedKey, inverse) ==
    LET expectedTypeName == TrimPrefix(operand2, "$")
        actualTypeName == TypeOf(operand1)
    IN  IF TypeOfPanics(operand1) THEN Panic
        ELSE IF inverse
        THEN IF actualTypeName # expectedTypeName THEN Return(TRUE)
             ELSE Append1(Error("Value type matched", actualKey, expectedKey,
                                "response_error"))
        ELSE IF actualTypeName = expectedTypeName THEN Return(TRUE)
             ELSE Append1(Error("Value type mismatched", actualKey, expectedKey,
                                "response_error"))

executeRegexOperator(actualValue0, expectedValue, actualKey, expectedKey) ==
    IF TypeOfPanics(actualValue0) THEN Panic
    ELSE IF TypeOf(actualValue0) # "string"
    THEN Append1(Error("Unexpected value type", actualKey, expectedKey, "response_error"))
    ELSE LET m == MatchString(expectedValue, actualValue0.s)
         IN  IF m.err
             THEN Append1(Error("Invalid regex pattern", actualKey, expectedKey,
                                "spec_error"))
             ELSE IF ~m.matched
             THEN Append1(Error("Regex mismatch", actualKey, expectedKey,
                                "response_error"))
             ELSE Return(TRUE)

(***************************************************************************)
(* the comparator table equalityOperators                                  *)
(***************************************************************************)
\* a previous snapshot's comparison, which knows no inverse flag
StringStringNoInverse(actual0, expected0, actualKey, expectedKey, inverse) ==
    IF HasPrefix(expected0.s, "$")
    THEN IF expected0.s # "$string"
         THEN Append1(Error("Unexpected value type", actualKey,
                            expectedKey \o ":" \o expected0.s, "response_error"))
         ELSE Return(TRUE)
    ELSE IF actual0.s # expected0.s
         THEN Append1(Error("Values are not equal", actualKey, expectedKey,
                            "response_error"))
         ELSE Return(TRUE)

\* equalityOperators["string"]["string"]
StringString(actual0, expected0, actualKey, expectedKey, inverse) ==
    LET act == actual0.s
        exp == expected0.s
    IN  IF HasPrefix(exp, "$")
        THEN IF inverse /\ exp = "$string"
             THEN Append1(Error("Unexpected value type", actualKey,
                                expectedKey \o ":" \o exp, "response_error"))
             ELSE IF ~inverse /\ exp # "$string"
             THEN Append1(Error("Unexpected value type", actualKey,
                                expectedKey \o ":" \o exp, "response_error"))
             ELSE Return(TRUE)
        ELSE IF inverse /\ act = exp
             THEN Append1(Error("Values are equal", actualKey, expectedKey,
                                "response_error"))
             ELSE IF ~inverse /\ act # exp
             THEN Append1(Error("Values are not equal", actualKey, expectedKey,
                                "response_error"))
             ELSE Return(TRUE)

\* a comparison that takes every type tag for the tag of a number
NumberStringAnyTag(actual0, expected0, actualKey, expectedKey, inverse) ==
    IF HasPrefix(expected0.s, "$") THEN Return(TRUE)
    ELSE Append1(Error("Values are not equal", actualKey, expectedKey, "response_error"))

\* equalityOperators["json.Number"]["string"]
NumberString(actual0, expected0, actualKey, expectedKey, inverse) ==
    LET exp == expected0.s
    IN  IF HasPrefix(exp, "$")
        THEN IF exp # "$number"
             THEN Append1(Error("Unexpected value type", actualKey,
                                expectedKey \o ":" \o exp, "response_error"))
             ELSE Return(TRUE)
        ELSE Append1(Error("Values are not equal", actualKey, expectedKey,
                           "response_error"))

\* equalityOperators["json.Number"]["int"]
NumberInt(actual0, expected0, actualKey, expectedKey, inverse) ==
    LET n == Int64(actual0.tok)
    IN  IF ~n.err /\ n.v = expected0.i THEN Return(TRUE)
        ELSE Append1(Error("Values are not equal", actualKey, expectedKey,
                           "response_error"))

\* the pairs that equalityOperators registers
Registered(actualValueType, expectedValueType) ==
    \/ /\ actualValueType = "string"
       /\ expectedValueType \in {"string", MapType}
    \/ /\ actualValueType = "json.Number"
       /\ expectedValueType \in {"string", "int", MapType}

RECURSIVE operate(_, _, _, _, _)
RECURSIVE StringMapRange(_, _, _, _, _, _)
RECURSIVE NumberMapRange(_, _, _, _, _, _)

\* equalityOperators["string"]["map[string]interface {}"]
StringMap(actual0, expected0, parentActualKey, parentExpectedKey, inverse) ==
    StringMapRange(actual0, expected0.m, DOMAIN expected0.m, Return(TRUE),
                   parentActualKey, parentExpectedKey)

\* the rest todo of its range loop, from the outcome acc so far
StringMapRange(actualValue, expectedValue, todo, acc, parentActualKey, parentExpectedKey) ==
    IF todo = {} \/ acc.panic THEN {acc}
    ELSE UNION {
        LET operand2 == expectedValue[expectedKey]
            after ==
                IF HasPrefix(expectedKey, "$")
                THEN IF acc.ok   \* result && operate(...) calls operate only if result
                     THEN {Then(acc, r) :
                              r \in operate(actualValue, expectedKey, operand2,
                                            parentActualKey,
                                            parentExpectedKey \o "." \o expectedKey)}
                     ELSE {acc}
                ELSE {Then(acc, Append1(Error("Cannot mix operators and fields",
                                              parentActualKey, parentExpectedKey,
                                              "spec_error")))}
        IN  UNION {StringMapRange(actualValue, expectedValue, todo \ {expectedKey}, a,
                                  parentActualKey, parentExpectedKey) : a \in after}
        : expectedKey \in todo}

\* equalityOperators["json.Number"]["map[string]interface {}"]
NumberMap(actual0, expected0, actualKey, expectedKey, inverse) ==
    NumberMapRange(actual0, expected0.m, DOMAIN expected0.m, Return(TRUE),
                   actualKey, expectedKey)

\* the rest todo of its range loop; the loop variable expectedKey shadows the
\* parameter, and operate is handed two empty paths
NumberMapRange(actualValue, expectedValue, todo, acc, actualKey, expectedKey0) ==
    IF todo = {} \/ acc.panic THEN {acc}
    ELSE UNION {
        LET operand2 == expectedValue[expectedKey]
            after ==
                IF HasPrefix(expectedKey, "$")
                THEN IF acc.ok
                     THEN {Then(acc, r) :
                              r \in operate(actualValue, expectedKey, operand2, "", "")}
                     ELSE {acc}
                ELSE {Then(acc, Append1(Error("Cannot mix operators and fields",
                                              actualKey, expectedKey, "spec_error")))}
        IN  UNION {NumberMapRange(actualValue, expectedValue, todo \ {expectedKey}, a,
                                  actualKey, expectedKey0) : a \in after}
        : expectedKey \in todo}

\* equalityOperators[actualValueType][expectedValueType], called
Comparator(actualValue, expectedValue, actualKey, expectedKey, inverse) ==
    LET a == TypeOf(actualValue)
        e == TypeOf(expectedValue)
    IN  CASE a = "string" /\ e = "string" ->
                {StringString(actualValue, expectedValue, actualKey, expectedKey, inverse)}
          [] a = "string" /\ e = MapType ->
                StringMap(actualValue, expectedValue, actualKey, expectedKey, inverse)
          [] a = "json.Number" /\ e = "string" ->
                {NumberString(actualValue, expectedValue, actualKey, expectedKey, inverse)}
          [] a = "json.Number" /\ e = "int" ->
                {NumberInt(actualValue, expectedValue, actualKey, expectedKey, inverse)}
          [] a = "json.Number" /\ e = MapType ->
                NumberMap(actualValue, expectedValue, actualKey, expectedKey, inverse)

executeNeOperator(actualValue, expectedValue, actualKey, expectedKey) ==
    IF TypeOfPanics(actualValue) \/ TypeOfPanics(expectedValue) THEN {Panic}
    ELSE IF Registered(TypeOf(actualValue), TypeOf(expectedValue))
    THEN Comparator(actualValue, expectedValue, actualKey, expectedKey, TRUE)
    ELSE {Printf(TypeOf(actualValue), TypeOf(expectedValue))}

\* case "$is": has an empty body and Go does not fall through to "$is_not"
operate(operand1, operator, operand2, parentActualKey, parentExpectedKey) ==
    CASE operator = "$is" -> {Return(FALSE)}
      [] operator = "$is_not" ->
            IF TypeOfPanics(operand2) THEN {Panic}
            ELSE IF TypeOf(operand2) # "string" \/ ~HasPrefix(operand2.s, "$")
            THEN {Append1(Error(operator \o " operator expects type name",
                                parentActualKey, parentExpectedKey, "spec_error"))}
            ELSE {executeIsOperator(operand1, operand2.s, parentActualKey,
                                    parentActualKey \o "." \o operator,
                                    operator = "$is_not")}
      [] operator = "$ne" ->
            executeNeOperator(operand1, operand2, parentActualKey, parentExpectedKey)
      [] operator = "$regex" ->
            IF TypeOfPanics(operand2) THEN {Panic}
            ELSE IF TypeOf(operand2) # "string"
            THEN {Append1(Error("$regex operator expects regex pattern",
                                parentActualKey, parentExpectedKey, "spec_error"))}
            ELSE {executeRegexOperator(operand1, operand2.s, parentActualKey,
                                       parentExpectedKey)}
      [] OTHER -> {Return(FALSE)}

(***************************************************************************)
(* the structural comparator                                               *)
(***************************************************************************)
\* !keyExists && !optionalKeyExists
UnknownKey(key, expected0) ==
    LET optionalKey == key \o "?"
        keyExists == key \in DOMAIN expected0
        optionalKeyExists == optionalKey \in DOMAIN expected0
    IN  ~keyExists /\ ~optionalKeyExists

RECURSIVE UnknownKeyRange(_, _, _, _, _, _)
\* the rest todo of the loop over the keys of actual
UnknownKeyRange(actual0, expected0, todo, acc, parentActualKey, parentExpectedKey) ==
    IF todo = {} THEN {acc}
    ELSE UNION {
        LET after ==
                IF UnknownKey(key, expected0)
                THEN ThenIgnore(acc, Append1(Error("Unknown key " \o key,
                                                   parentActualKey \o "." \o key,
                                                   parentExpectedKey \o ".$unknown",
                                                   "match_error")))
                ELSE acc
        IN  UnknownKeyRange(actual0, expected0, todo \ {key}, after,
                            parentActualKey, parentExpectedKey)
        : key \in todo}

\* one pass of the loop over the keys of expected
ExpectedKeyStep(actual0, expected0, expectedKey, parentActualKey, parentExpectedKey) ==
    LET optional == HasSuffix(expectedKey, "?")
        actualKey == IF optional THEN TrimSuffix(expectedKey, "?") ELSE expectedKey
        actualValueExists == actualKey \in DOMAIN actual0
        actualValue == actual0[actualKey]
        expectedValue == expected0[expectedKey]
    IN  IF ~actualValueExists
        THEN IF ~optional
             THEN {Append1(Error("Cannot find required key '" \o actualKey \o "'",
                                 parentActualKey \o ".<" \o actualKey \o ">",
                                 parentExpectedKey \o "." \o expectedKey,
                                 "match_error"))}
             ELSE {Return(TRUE)}
        ELSE IF HasPrefix(expectedKey, "$")
        THEN operate(actualValue, expectedKey, expectedValue,
                     parentActualKey \o "." \o actualKey,
                     parentExpectedKey \o "." \o expectedKey)
        ELSE IF TypeOfPanics(actualValue) \/ TypeOfPanics(expectedValue) THEN {Panic}
        ELSE IF Registered(TypeOf(actualValue), TypeOf(expectedValue))
        THEN Comparator(actualValue, expectedValue,
                        parentActualKey \o "." \o actualKey,
                        parentExpectedKey \o "." \o expectedKey, FALSE)
        ELSE {Printf(TypeOf(actualValue), TypeOf(expectedValue))}

RECURSIVE ExpectedKeyRange(_, _, _, _, _, _)
\* the rest todo of the loop over the keys of expected
ExpectedKeyRange(actual0, expected0, todo, acc, parentActualKey, parentExpectedKey) ==
    IF todo = {} \/ acc.panic THEN {acc}
    ELSE UNION {
        UNION {ExpectedKeyRange(actual0, expected0, todo \ {expectedKey},
                                ThenIgnore(acc, r), parentActualKey, parentExpectedKey)
               : r \in ExpectedKeyStep(actual0, expected0, expectedKey,
                                       parentActualKey, parentExpectedKey)}
        : expectedKey \in todo}

\* the outcomes of compareObjects(actual, expected, parentActualKey, parentExpectedKey)
compareObjects(actual0, expected0, parentActualKey, parentExpectedKey) ==
    UNION {ExpectedKeyRange(actual0, expected0, DOMAIN expected0, a,
                            parentActualKey, parentExpectedKey)
           : a \in UnknownKeyRange(actual0, expected0, DOMAIN actual0, Return(TRUE),
                                   parentActualKey, parentExpectedKey)}

(***************************************************************************)
(* The responses and the patterns of the model.                            *)
(***************************************************************************)
Restrict(f, S) == [k \in S |-> f[k]]

Op1(operator, operand) == Mapping(operator :> operand)
Op2(op1, operand1, op2, operand2) == Mapping((op1 :> operand1) @@ (op2 :> operand2))

\* the values a response holds at the key "id"
Actuals == {String("1"), String("Mountain"), Number("1"), Number("2"), Number("1.5"),
            Bool(TRUE), Nil, Sequence(<<>>), Mapping(EmptyMap),
            Mapping("k" :> String("1"))}

\* the entries a pattern holds at the key "id"
Patterns ==
    {String("$string"), String("$number"), String("$bool"), String("1"),
     String("Mountain"), GoInt(1), GoInt(2), Float("1.5"), Bool(TRUE), Nil,
     Sequence(<<>>)}
    \cup {Op1("$is", String("$string")), Op1("$is", String("$number")),
          Op1("$is_not", String("$string")), Op1("$is_not", String("$number")),
          Op1("$is_not", String("number")),
          Op1("$ne", String("1")), Op1("$ne", String("$string")), Op1("$ne", GoInt(1)),
          Op1("$ne", Bool(TRUE)), Op1("$ne", Nil),
          Op1("$regex", String("^M")), Op1("$regex", String("1$")),
          Op1("$regex", String("(")), Op1("$regex", GoInt(1)),
          Op1("$gt", GoInt(1))}
    \cup {Op2("$regex", String("^M"), "$ne", String("1")),
          Op2("$regex", String("^M"), "$ne", GoInt(1)),
          Op2("$ne", String("1"), "name", String("$string")),
          Op1("k", String("$string")),
          Op2("k", String("$string"), "j", String("$number"))}

\* the responses and the pattern of the examples, and their restrictions
FullActuals ==
    {("id" :> a) @@ ("name" :> String("Mountain")) @@ ("extra" :> Bool(TRUE)) :
        a \in {String("1"), Number("1"), Nil}}

FullPattern ==
    ("id" :> String("$number")) @@ ("name" :> Op1("$regex", String("^M")))
      @@ ("name?" :> String("$number")) @@ ("tag?" :> String("$string"))

\* the pairs <<response, pattern>> a call of compareObjects is given
Cases ==
    {<<"id" :> a, "id" :> p>> : a \in Actuals, p \in Patterns}
    \cup {<<Restrict(f, S), Restrict(FullPattern, T)>> :
             f \in FullActuals, S \in SUBSET {"id", "name", "extra"},
             T \in SUBSET {"id", "name", "name?", "tag?"}}

(***************************************************************************)
(* compareObjects(responseObject, testCase.Out, "$root", "$root.out"), as  *)
(* processEntry calls it.  A panic ends the process.                       *)
(***************************************************************************)
CompareObjectsCall ==
    /\ status = "running"
    /\ calls < MaxCalls
    /\ \E c \in Cases :
         \E r \in compareObjects(c[1], c[2], "$root", "$root.out") :
            /\ actual' = c[1]
            /\ expected' = c[2]
            /\ mark' = Len(errors)
            /\ errors' = errors \o r.errs
            /\ stdout' = stdout \o r.out
            /\ status' = IF r.panic THEN "panicked" ELSE "running"
    /\ calls' = calls + 1
    /\ UNCHANGED referVars
    /\ UNCHANGED mainVars

InitCompare ==
    /\ errors = <<>>
    /\ actual = EmptyMap
    /\ expected = EmptyMap
    /\ mark = 0
    /\ calls = 0
    /\ status = "running"
    /\ stdout = <<>>

InitRefer ==
    /\ value = ""
    /\ context = EmptyMap
    /\ index = 0
    /\ buffer = ""
    /\ rpc = "idle"

\* no entry discovered
InitNoEntries ==
    /\ entries = <<>>
    /\ position = 1
    /\ requests = <<>>

Init == InitCompare /\ InitRefer /\ InitNoEntries

NextCompare == CompareObjectsCall

SpecCompare == Init /\ [][NextCompare]_vars

(***************************************************************************)
(* refer(value, context): the placeholders of a request target             *)
(***************************************************************************)
RECURSIVE Lookup(_, _)
\* the value at the dotted path below v, or an error
Lookup(v, path) ==
    IF path = "" THEN [err |-> FALSE, v |-> v]
    ELSE LET dot == StringsIndex(path, ".")
             seg == IF dot < 0 THEN path ELSE SubSeq(path, 1, dot)
             rest == IF dot < 0 THEN "" ELSE SubSeq(path, dot + 2, Len(path))
         IN  IF v.kind = MapType /\ seg \in DOMAIN v.m
             THEN Lookup(v.m[seg], rest)
             ELSE [err |-> TRUE, v |-> Nil]

\* jsonpath.Read(context, path) for the paths "$.a.b" of keys
jsonpathRead(ctx, path) == Lookup(Mapping(ctx), TrimPrefix(path, "$."))

\* the variables file of the run, under the key "vars"
Variables ==
    ("host" :> String("h")) @@ ("id" :> String("7")) @@ ("port" :> GoInt(80))

Context == "vars" :> Mapping(Variables)

\* the pieces request targets are made of
Pieces == {"GET ", "/m", "{{vars.host}}", "{{ vars.id }}", "{{vars.port}}",
           "{{vars.none}}", "{{", "}}"}

RECURSIVE Concatenations(_)
\* the concatenations of at most n pieces
Concatenations(n) ==
    IF n = 0 THEN {""}
    ELSE LET shorter == Concatenations(n - 1)
         IN  shorter \cup {t \o q : t \in shorter, q \in Pieces}

Targets == Concatenations(MaxPieces)

\* value[from:to] of Go
Slice(s, from, to) == SubSeq(s, from + 1, to)

ReferCall ==
    /\ rpc \in {"idle", "returned"}
    /\ \E target \in Targets : value' = target
    /\ context' = Context
    /\ index' = 0
    /\ buffer' = ""
    /\ rpc' = "loop"
    /\ UNCHANGED compareVars
    /\ UNCHANGED mainVars

\* the pass of the loop at index moves index
Advances(target, at) ==
    LET startIndex == StringsIndex(target, "{{")
        stopIndex == StringsIndex(target, "}}")
    IN  startIndex < at \/ stopIndex >= startIndex + 2

\* one pass of the loop of refer
ReferStep ==
    /\ rpc = "loop"
    /\ index < Len(value)
    /\ Advances(value, index) \/ Len(buffer) <= MaxBuffer
    /\ LET startIndex == StringsIndex(value, "{{")
           stopIndex == StringsIndex(value, "}}")
           written == buffer \o Slice(value, index, startIndex)
           snippet == TrimSpace(Slice(value, startIndex + 2, stopIndex))
           read == jsonpathRead(context, "$." \o snippet)
       IN  IF startIndex >= index
           THEN IF stopIndex >= startIndex + 2
                THEN IF read.err
                     THEN \* log.Fatal(err)
                          /\ rpc' = "fatal"
                          /\ buffer' = written
                          /\ index' = index
                     ELSE IF read.v.kind # "string"
                     THEN \* value.(string) panics
                          /\ rpc' = "panicked"
                          /\ buffer' = written
                          /\ index' = index
                     ELSE /\ buffer' = written \o read.v.s
                          /\ index' = stopIndex + 2
                          /\ rpc' = "loop"
                ELSE /\ buffer' = written
                     /\ index' = index
                     /\ rpc' = "loop"
           ELSE /\ buffer' = buffer \o Slice(value, index, Len(value))
                /\ index' = Len(value)
                /\ rpc' = "loop"
    /\ UNCHANGED <<value, context>>
    /\ UNCHANGED compareVars
    /\ UNCHANGED mainVars

\* return buffer.String()
ReferReturn ==
    /\ rpc = "loop"
    /\ index >= Len(value)
    /\ rpc' = "returned"
    /\ UNCHANGED <<value, context, index, buffer>>
    /\ UNCHANGED compareVars
    /\ UNCHANGED mainVars

NextRefer == ReferCall \/ ReferStep \/ ReferReturn

SpecRefer == Init /\ [][NextRefer]_vars

(***************************************************************************)
(* main: the run loop over the discovered entries, and processEntry        *)
(***************************************************************************)
RECURSIVE Split(_, _)
\* strings.Split(s, sep) for a separator that is not empty
Split(s, sep) ==
    LET i == StringsIndex(s, sep)
    IN  IF i < 0 THEN <<s>>
        ELSE <<Slice(s, 0, i)>> \o Split(Slice(s, i + Len(sep), Len(s)), sep)

\* the short names of the discovered files, in the order of discovery
EntryNames == <<"./a.yaml", "./b.yaml", "./c.yaml", "./d.yaml">>

\* the targets and the patterns of the specification files
MainTargets == {"", "  ", "GET", "GET /m", "POST /m", "PUT /m", "GET {{vars.host}}/m",
                "GET /{{vars.none}}", "GET /{{vars.port}}", "GET {{"}

MainOuts ==
    {("id" :> String("$number")) @@ ("name" :> Op1("$regex", String("^M")))
       @@ ("tag?" :> String("$string")),
     "id" :> String("$number")}

TestCases == [Target : MainTargets, Out : MainOuts]

\* the lists of files listFiles may discover
EntryLists == UNION {[1..n -> TestCases] : n \in 0..MaxEntries}

\* the responses of the server
MainResponses ==
    {("id" :> Number("1")) @@ ("name" :> String("Mountain")),
     ("id" :> String("1")) @@ ("name" :> String("Mountain")) @@ ("extra" :> Bool(TRUE)),
     EmptyMap}

\* processEntry up to its call of refer: readConf and the test of the target
ProcessEntryBegin ==
    /\ status = "running"
    /\ rpc = "idle"
    /\ position <= Len(entries)
    /\ LET testCase == entries[position]
           cleanTarget == TrimSpace(testCase.Target)
       IN  IF cleanTarget = ""
           THEN /\ errors' = Append(errors,
                                    [message |-> "Target expected", actualKey |-> "",
                                     expectedKey |-> "$root.target",
                                     category |-> "spec_error",
                                     entry |-> EntryNames[position]])
                /\ position' = position + 1
                /\ UNCHANGED referVars
           ELSE /\ value' = testCase.Target
                /\ context' = Context
                /\ index' = 0
                /\ buffer' = ""
                /\ rpc' = "loop"
                /\ UNCHANGED <<errors, position>>
    /\ UNCHANGED <<actual, expected, mark, calls, status, stdout, entries, requests>>

\* processEntry from the return of refer: the request and the comparison
ProcessEntryRequest ==
    /\ status = "running"
    /\ rpc = "loop"
    /\ index >= Len(value)
    /\ position <= Len(entries)
    /\ LET target == buffer
           parts == Split(target, " ")
           method == parts[1]
           url == parts[2]
       IN  IF Len(parts) < 2
           THEN \* parts[1]: index out of range
                /\ status' = "panicked"
                /\ UNCHANGED <<errors, actual, expected, mark, calls, stdout, requests>>
           ELSE IF method \in {"GET", "POST"}
           THEN \/ \* http.Get or http.Post fails: log.Fatalf
                   /\ status' = "fatal"
                   /\ UNCHANGED <<errors, actual, expected, mark, calls, stdout, requests>>
                \/ \E response \in MainResponses :
                      \E r \in compareObjects(response, entries[position].Out,
                                              "$root", "$root.out") :
                         /\ requests' = Append(requests,
                                               [entry |-> EntryNames[position],
                                                method |-> method, url |-> url])
                         /\ actual' = response
                         /\ expected' = entries[position].Out
                         /\ mark' = Len(errors)
                         /\ calls' = calls + 1
                         /\ errors' = errors \o r.errs
                         /\ stdout' = stdout \o r.out
                         /\ status' = IF r.panic THEN "panicked" ELSE "running"
           ELSE UNCHANGED <<errors, actual, expected, mark, calls, status, stdout,
                            requests>>
    /\ rpc' = "idle"
    /\ position' = position + 1
    /\ UNCHANGED <<value, context, index, buffer, entries>>

\* main after the run loop: the diagnostics are printed and the process ends
MainReport ==
    /\ status = "running"
    /\ rpc = "idle"
    /\ position > Len(entries)
    /\ status' = "exited"
    /\ UNCHANGED <<errors, actual, expected, mark, calls, stdout>>
    /\ UNCHANGED referVars
    /\ UNCHANGED mainVars

InitMain ==
    /\ InitCompare
    /\ InitRefer
    /\ entries \in EntryLists
    /\ position = 1
    /\ requests = <<>>

NextMain == ProcessEntryBegin \/ ReferStep \/ ProcessEntryRequest \/ MainReport

SpecMain == InitMain /\ [][NextMain]_vars

(***************************************************************************)
(* What the claims speak of.                                               *)
(***************************************************************************)
called == calls > 0
\* the last call returned: it visited every key of the response and the pattern
returned == called /\ status = "running"

\* the diagnostics the last call appended
appended == SubSeq(errors, mark + 1, Len(errors))

ToSet(seq) == {seq[i] : i \in 1..Len(seq)}
Count(seq, d) == Cardinality({i \in 1..Len(seq) : seq[i] = d})

IsScalar(a) == a.kind \in {"string", "json.Number"}
KindTag(a) == IF a.kind = "string" THEN "$string" ELSE "$number"
IsTag(x) == x.kind = "string" /\ x.s \in {"$string", "$number"}
IsSigil(x) == x.kind = "string" /\ HasPrefix(x.s, "$")
IsLiteral(x) == x.kind = "int" \/ (x.kind = "string" /\ ~HasPrefix(x.s, "$"))

\* the actual value a equals the literal x
LiteralEq(a, x) ==
    \/ a.kind = "string" /\ x.kind = "string" /\ a.s = x.s
    \/ a.kind = "json.Number" /\ x.kind = "int"
         /\ ~Int64(a.tok).err /\ Int64(a.tok).v = x.i

\* the pattern entry p is the invocation of one operator
IsInvocation(p) == p.kind = MapType /\ Cardinality(DOMAIN p.m) = 1
OperatorOf(p) == CHOOSE o \in DOMAIN p.m : TRUE
OperandOf(p) == p.m[OperatorOf(p)]

\* the pattern entries C1 speaks of
EntryInScope(p) ==
    \/ p.kind \in {"string", "int"}
    \/ /\ IsInvocation(p)
       /\ \/ OperatorOf(p) \in {"$is", "$is_not"} /\ IsTag(OperandOf(p))
          \/ OperatorOf(p) = "$ne" /\ IsLiteral(OperandOf(p))
          \/ OperatorOf(p) = "$regex" /\ OperandOf(p).kind = "string"
               /\ ~MatchString(OperandOf(p).s, "").err

\* the meaning of a pattern entry in scope, for a String or a Number a
Satisfies(a, p) ==
    IF IsSigil(p) THEN p.s = KindTag(a)
    ELSE IF ~IsInvocation(p) THEN LiteralEq(a, p)
    ELSE CASE OperatorOf(p) = "$is" -> OperandOf(p).s = KindTag(a)
           [] OperatorOf(p) = "$is_not" -> OperandOf(p).s # KindTag(a)
           [] OperatorOf(p) = "$ne" -> ~LiteralEq(a, OperandOf(p))
           [] OperatorOf(p) = "$regex" ->
                 a.kind = "string" /\ MatchString(OperandOf(p).s, a.s).matched

Optional(expectedKey) == HasSuffix(expectedKey, "?")
ActualKeyOf(expectedKey) == TrimSuffix(expectedKey, "?")

\* V matches P: no key outside P, every required key present, every present
\* value satisfies its entry
Matches(V, P) ==
    /\ \A k \in DOMAIN V : IsScalar(V[k]) /\ (k \in DOMAIN P \/ (k \o "?") \in DOMAIN P)
    /\ \A ek \in DOMAIN P :
          /\ ~HasPrefix(ek, "$")
          /\ EntryInScope(P[ek])
          /\ ~Optional(ek) => ek \in DOMAIN V
          /\ ActualKeyOf(ek) \in DOMAIN V => Satisfies(V[ActualKeyOf(ek)], P[ek])

\* C1: a call of compareObjects on a response that matches its pattern appends
\* no diagnostic.
C1_Soundness == (called /\ Matches(actual, expected)) => appended = <<>>

\* the match_error diagnostics C2 names for the call compareObjects(V, P, ...)
MissingKeyError(k) ==
    [message |-> "Cannot find required key '" \o k \o "'",
     actualKey |-> "$root.<" \o k \o ">", expectedKey |-> "$root.out." \o k,
     category |-> "match_error", entry |-> NoEntry]

UnknownKeyError(k) ==
    [message |-> "Unknown key " \o k,
     actualKey |-> "$root." \o k, expectedKey |-> "$root.out.$unknown",
     category |-> "match_error", entry |-> NoEntry]

MatchErrors(V, P) ==
    {MissingKeyError(k) : k \in {ek \in DOMAIN P : ~Optional(ek) /\ ek \notin DOMAIN V}}
    \cup {UnknownKeyError(k) :
             k \in {ak \in DOMAIN V : ak \notin DOMAIN P /\ (ak \o "?") \notin DOMAIN P}}

\* C2: the match_error diagnostics a call appends are exactly one for each
\* required key of the pattern that the response lacks and one for each key of
\* the response that the pattern does not have, plain or optional.
C2_MatchErrorsExact ==
    called =>
       /\ {d \in ToSet(appended) : d.category = "match_error"}
             = MatchErrors(actual, expected)
       /\ \A d \in MatchErrors(actual, expected) : Count(appended, d) = 1

\* the same of the calls that return
C2_MatchErrorsExactOnReturn == status = "panicked" \/ C2_MatchErrorsExact

\* C3: {$is: K} appends no diagnostic if the kind of the value is K and one if
\* it is not; {$is_not: K} appends one if the kind is K and none if it is not.
C3_IsSymmetric ==
    called =>
       \A k \in DOMAIN expected :
          (/\ DOMAIN actual = {k} /\ DOMAIN expected = {k}
           /\ IsScalar(actual[k]) /\ IsInvocation(expected[k])
           /\ OperatorOf(expected[k]) \in {"$is", "$is_not"}
           /\ IsTag(OperandOf(expected[k])))
          => Len(appended) = IF Satisfies(actual[k], expected[k]) THEN 0 ELSE 1

\* the entries {$ne: x} of the pattern with a plain string x, at a key whose
\* value in the response is a string
NeEntries ==
    {ek \in DOMAIN expected :
        /\ ~HasPrefix(ek, "$")
        /\ ActualKeyOf(ek) \in DOMAIN actual
        /\ actual[ActualKeyOf(ek)].kind = "string"
        /\ IsInvocation(expected[ek])
        /\ OperatorOf(expected[ek]) = "$ne"
        /\ OperandOf(expected[ek]).kind = "string"
        /\ ~HasPrefix(OperandOf(expected[ek]).s, "$")}

\* the diagnostics of the last call that name the expected path ek
AtExpected(ek) ==
    {i \in 1..Len(appended) : appended[i].expectedKey = ek}

\* C4: on a string a, {$ne: x} with a plain string x fails with exactly one
\* response_error if a = x and passes without a diagnostic if a differs from x
\* (of every such entry that a call has visited).
C4_NeString ==
    returned =>
       \A ek \in NeEntries :
          LET a == actual[ActualKeyOf(ek)]
              x == OperandOf(expected[ek])
              at == AtExpected("$root.out." \o ek \o ".$ne")
              at0 == AtExpected("$root.out." \o ek)
          IN  /\ \A r \in Comparator(a, expected[ek], "$root." \o ActualKeyOf(ek),
                                     "$root.out." \o ek, FALSE) : r.ok = (a.s # x.s)
              /\ at0 = {}
              /\ IF a.s = x.s
                 THEN Cardinality(at) = 1
                        /\ \A i \in at : appended[i].category = "response_error"
                 ELSE at = {}

\* a call that compared a string with {$ne: x} for an equal x and one for a
\* different x
C4_NeEqual ==
    returned /\ \E ek \in NeEntries :
                    actual[ActualKeyOf(ek)].s = OperandOf(expected[ek]).s

C4_NeDifferent ==
    returned /\ \E ek \in NeEntries :
                    actual[ActualKeyOf(ek)].s # OperandOf(expected[ek]).s

\* the entries of the pattern that are a string with the sigil, at a plain key
\* whose value in the response is a String or a Number
TagEntries ==
    {ek \in DOMAIN expected :
        /\ ~HasPrefix(ek, "$")
        /\ ActualKeyOf(ek) \in DOMAIN actual
        /\ IsScalar(actual[ActualKeyOf(ek)])
        /\ IsSigil(expected[ek])}

ExampleActual ==
    ("id" :> String("1")) @@ ("name" :> String("Mountain")) @@ ("extra" :> Bool(TRUE))

ExamplePattern ==
    ("id" :> String("$number")) @@ ("name" :> Op1("$regex", String("^M")))
      @@ ("tag?" :> String("$string"))

\* C5: in a literal comparison of a String or a Number with an expected string
\* that begins with the sigil, no diagnostic is appended if the string is the
\* tag of the value's kind and exactly one response_error otherwise; the
\* example pattern against {id: "1", name: "Mountain", extra: true} yields one
\* response_error for id and one match_error for extra, and nothing else.
C5_TypeTag ==
    returned =>
       /\ \A ek \in TagEntries :
             LET a == actual[ActualKeyOf(ek)]
                 at == AtExpected("$root.out." \o ek \o ":" \o expected[ek].s)
             IN  /\ AtExpected("$root.out." \o ek) = {}
                 /\ IF expected[ek].s = KindTag(a) THEN at = {}
                    ELSE /\ Cardinality(at) = 1
                         /\ \A i \in at :
                               /\ appended[i].category = "response_error"
                               /\ appended[i].actualKey = "$root." \o ActualKeyOf(ek)
       /\ (actual = ExampleActual /\ expected = ExamplePattern) =>
             /\ Len(appended) = 2
             /\ \E i, j \in 1..2 :
                   /\ appended[i].category = "response_error"
                   /\ appended[i].actualKey = "$root.id"
                   /\ appended[j] = UnknownKeyError("extra")

\* the example call, and calls that compared a value with a tag of its own
\* kind and with another tag
C5_Example == returned /\ actual = ExampleActual /\ expected = ExamplePattern

C5_OwnTag ==
    returned /\ \E ek \in TagEntries : expected[ek].s = KindTag(actual[ActualKeyOf(ek)])

C5_OtherTag ==
    returned /\ \E ek \in TagEntries : expected[ek].s # KindTag(actual[ActualKeyOf(ek)])

NotSupported ==
    {d \in ToSet(appended) : d.category = "spec_error"}

\* C6: a comparison of a pair of kinds that equalityOperators does not
\* register, from compareObjects or from $ne, appends exactly one spec_error
\* and the run goes on.
C6_UnregisteredReported ==
    called =>
       \A k \in DOMAIN expected :
          (/\ DOMAIN actual = {k} /\ DOMAIN expected = {k}
           /\ LET a == IF TypeOfPanics(actual[k]) THEN "nil" ELSE TypeOf(actual[k])
                  e == IF IsInvocation(expected[k]) /\ OperatorOf(expected[k]) = "$ne"
                            /\ Registered(a, MapType)
                       THEN OperandOf(expected[k]).kind
                       ELSE expected[k].kind
              IN  ~Registered(a, e))
          => /\ status = "running"
             /\ Len(appended) = 1
             /\ appended[1].category = "spec_error"

\* C7: every diagnostic of the list has an actual path that starts with $root
\* and an expected path that starts with $root.out.
C7_PathsRooted ==
    \A i \in 1..Len(errors) :
       /\ HasPrefix(errors[i].actualKey, "$root")
       /\ HasPrefix(errors[i].expectedKey, "$root.out")

\* the diagnostics of the check of the one key ek, made on its own
AloneAt(ek) ==
    UNION {ToSet(r.errs) :
              r \in ExpectedKeyStep(actual, expected, ek, "$root", "$root.out")}

\* the diagnostics of the one operator o of the invocation at ek, made on its own
AloneIn(ek, o) ==
    UNION {ToSet(r.errs) :
              r \in ExpectedKeyStep(actual, ek :> Mapping(o :> expected[ek].m[o]), ek,
                                    "$root", "$root.out")}

\* C8: a key whose check fails on its own contributes its diagnostic whatever
\* the other keys do, among the keys of the pattern and among the keys of a
\* nested pattern mapping, and every visiting order gives the same set of
\* diagnostics.
C8_NoShortCircuit ==
    returned =>
       /\ \A r \in compareObjects(actual, expected, "$root", "$root.out") :
             ToSet(r.errs) = ToSet(appended)
       /\ \A ek \in DOMAIN expected :
             /\ (\A r \in ExpectedKeyStep(actual, expected, ek, "$root", "$root.out") :
                    ~r.panic)
                   => AloneAt(ek) \subseteq ToSet(appended)
             /\ (ActualKeyOf(ek) \in DOMAIN actual /\ IsScalar(actual[ActualKeyOf(ek)])
                   /\ expected[ek].kind = MapType)
                   => \A o \in DOMAIN expected[ek].m :
                         AloneIn(ek, o) \subseteq ToSet(appended)

\* C9: a Mapping in the response under a pattern Mapping of field names is
\* compared by compareObjects itself one level down: the diagnostics of the
\* nested call, with the paths extended by the key, are appended.
C9_NestedRecursion ==
    returned =>
       \A k \in DOMAIN expected :
          (/\ k \in DOMAIN actual
           /\ ~HasPrefix(k, "$") /\ ~Optional(k)
           /\ actual[k].kind = MapType /\ expected[k].kind = MapType
           /\ \A f \in DOMAIN expected[k].m : ~HasPrefix(f, "$"))
          => \A r \in compareObjects(actual[k].m, expected[k].m,
                                     "$root." \o k, "$root.out." \o k) :
                ToSet(r.errs) \subseteq ToSet(appended)

(***************************************************************************)
(* The resolution of placeholders that C10 describes.                      *)
(***************************************************************************)
\* the 0-based index of the first "}}" of s at or after from, or -1
ClosingFrom(s, from) ==
    LET i == StringsIndex(Slice(s, from, Len(s)), "}}")
    IN  IF i < 0 THEN -1 ELSE from + i

\* the string the placeholder text snippet resolves to, if any
Resolves(snippet) ==
    LET read == jsonpathRead(Context, "$." \o TrimSpace(snippet))
    IN  ~read.err /\ read.v.kind = "string"

Resolved(snippet) == jsonpathRead(Context, "$." \o TrimSpace(snippet)).v.s

RECURSIVE WellFormed(_)
\* s is text without delimiters and placeholders {{ expr }} that resolve to
\* strings
WellFormed(s) ==
    LET open == StringsIndex(s, "{{")
        close == ClosingFrom(s, open + 2)
    IN  IF open < 0 THEN StringsIndex(s, "}}") < 0
        ELSE /\ StringsIndex(Slice(s, 0, open), "}}") < 0
             /\ close >= 0
             /\ StringsIndex(Slice(s, open + 2, close), "{{") < 0
             /\ Resolves(Slice(s, open + 2, close))
             /\ WellFormed(Slice(s, close + 2, Len(s)))

RECURSIVE Placeholders(_)
\* the number of placeholders of a well-formed s
Placeholders(s) ==
    IF StringsIndex(s, "{{") < 0 THEN 0
    ELSE 1 + Placeholders(Slice(s, ClosingFrom(s, StringsIndex(s, "{{") + 2) + 2, Len(s)))

RECURSIVE Substituted(_)
\* a well-formed s with every placeholder replaced by its string
Substituted(s) ==
    LET open == StringsIndex(s, "{{")
        close == ClosingFrom(s, open + 2)
    IN  IF open < 0 THEN s
        ELSE Slice(s, 0, open) \o Resolved(Slice(s, open + 2, close))
               \o Substituted(Slice(s, close + 2, Len(s)))

\* C10: refer returns a target of well-formed placeholders with every
\* placeholder replaced by its string and the text between them unchanged.
C10_AllReplaced ==
    (rpc = "returned" /\ WellFormed(value)) => buffer = Substituted(value)

\* the same of the targets with at most one placeholder
C10_OneReplaced ==
    (rpc = "returned" /\ WellFormed(value) /\ Placeholders(value) <= 1)
       => buffer = Substituted(value)

\* the target s holds an opening {{ with no closing }} after it
UnclosedOpen(s) ==
    \E i \in 0..(Len(s) - 2) :
       /\ Slice(s, i, i + 2) = "{{"
       /\ ClosingFrom(s, i + 2) < 0

\* C11: refer ends on every target: no pass of its loop leaves the index where
\* it was, and a target with an opening {{ that is never closed is not
\* returned as if it were resolved.
C11_ReferTerminates ==
    /\ (rpc = "loop" /\ index < Len(value)) => Advances(value, index)
    /\ rpc = "returned" => ~UnclosedOpen(value)

\* the first placeholder of the target does not resolve to a string: its path
\* is not found, or what it finds is no string
PlaceholderFails(target) ==
    LET open == StringsIndex(target, "{{")
        close == ClosingFrom(target, open + 2)
    IN  open >= 0 /\ close >= 0 /\ ~Resolves(Slice(target, open + 2, close))

\* the entries whose specification is in error: a blank target, or a
\* placeholder that does not resolve
SpecErrorEntry(testCase) ==
    TrimSpace(testCase.Target) = "" \/ PlaceholderFails(testCase.Target)

\* the positions in EntryNames of the requests issued, in the order of issue
RequestPositions ==
    [j \in 1..Len(requests) |->
        CHOOSE i \in 1..Len(EntryNames) : EntryNames[i] = requests[j].entry]

\* C12: an entry with a blank target or a placeholder that does not resolve
\* does not abort the run: it is passed with exactly one spec_error of its own
\* and without a request, and the entries are requested in discovery order.
C12_SpecErrorIsolated ==
    /\ (position <= Len(entries) /\ SpecErrorEntry(entries[position]))
          => rpc \notin {"fatal", "panicked"}
    /\ \A i \in 1..(position - 1) :
          SpecErrorEntry(entries[i]) =>
             /\ Cardinality({j \in 1..Len(errors) :
                               errors[j].entry = EntryNames[i]}) = 1
             /\ \A j \in 1..Len(errors) :
                   errors[j].entry = EntryNames[i] => errors[j].category = "spec_error"
             /\ \A j \in 1..Len(requests) : requests[j].entry # EntryNames[i]
    /\ \A j, k \in 1..Len(requests) :
          j < k => RequestPositions[j] < RequestPositions[k]

\* the same of the entries with a blank target alone
C12_BlankIsolated ==
    \A i \in 1..(position - 1) :
       TrimSpace(entries[i].Target) = "" =>
          /\ Cardinality({j \in 1..Len(errors) : errors[j].entry = EntryNames[i]}) = 1
          /\ \A j \in 1..Len(requests) : requests[j].entry # EntryNames[i]

\* the keys of the last call at which a registered pair of kinds met, the
\* expected value being no string with the sigil
RegisteredKeys ==
    {ek \in DOMAIN expected :
        /\ ~HasPrefix(ek, "$")
        /\ ActualKeyOf(ek) \in DOMAIN actual
        /\ Registered(actual[ActualKeyOf(ek)].kind, expected[ek].kind)
        /\ ~IsSigil(expected[ek])}

\* C13: a registered comparator called with inverse=true returns true exactly
\* when it returns false with inverse=false, and each call appends a
\* diagnostic exactly when it returns false; so {$ne: m} on a Number n appends
\* nothing if n differs from m and one response_error if n = m.
C13_NegationSymmetric ==
    called =>
       /\ \A ek \in RegisteredKeys :
             LET a == actual[ActualKeyOf(ek)]
                 e == expected[ek]
                 ak == "$root." \o ActualKeyOf(ek)
                 xk == "$root.out." \o ek
             IN  \A rt \in Comparator(a, e, ak, xk, TRUE) :
                    \A rf \in Comparator(a, e, ak, xk, FALSE) :
                       /\ rt.ok = ~rf.ok
                       /\ rt.ok = (rt.errs = <<>>)
                       /\ rf.ok = (rf.errs = <<>>)
       /\ \A k \in DOMAIN expected :
             (/\ DOMAIN actual = {k} /\ DOMAIN expected = {k}
              /\ actual[k].kind = "json.Number"
              /\ IsInvocation(expected[k])
              /\ OperatorOf(expected[k]) = "$ne"
              /\ OperandOf(expected[k]).kind = "int")
             => IF LiteralEq(actual[k], OperandOf(expected[k]))
                THEN Len(appended) = 1 /\ appended[1].category = "response_error"
                ELSE appended = <<>>

====
